---- MODULE Spec2Model ----
(***************************************************************************)
(* Model of the MCP client manager (src/unnamed/part_002): the registry   *)
(* `servers`, the per-connection MCPServer records, the JSON-RPC request  *)
(* / response correlation of sendRequest and handleServerOutput, the      *)
(* handshake of connectServer, and the exported operations.               *)
(*                                                                         *)
(* JavaScript runs every handler to completion, and the continuation of   *)
(* an `await` runs in the microtasks drained before the next event, so    *)
(* an action is one event (a stdout chunk, a timer, a process event or a  *)
(* call of an exported function) together with every continuation it      *)
(* resumes.  Handlers are written as operators from a world record to a   *)
(* world record; Commit assigns the variables from the result.            *)
(***************************************************************************)
EXTENDS Integers, Sequences, FiniteSets, TLC

VARIABLES servers, conns, timers, inits, config, stream

vars == <<servers, conns, timers, inits, config, stream>>

\* ---------------------------------------------------------------- bounds

\* tools/call requests sent in one behaviour that starts with initializeMCP
\* (executeMCPTool is not called on a connected server once they are used up).
MaxCalls == 1

\* tools/call requests sent in one behaviour that starts with both servers
\* connected.
MaxReadyCalls == 3

\* The largest id a server puts in a response: the two handshake requests and
\* the calls.
MaxReq == 2 + MaxReadyCalls

\* ------------------------------------------------------------ vocabulary

Names == {"a", "b"}

\* Configurations loadMCPConfig may return: distinct names, and the same name
\* twice (validateMCPConfig does not reject it).
Configs == { <<"a">>, <<"a", "b">>, <<"a", "a">> }

\* What the server put in the result member of a response:
\*   "ok"    {tools: [{name: "ping", ...}]}  (a well-formed object)
\*   "empty" an object without a tools member
\*   "undef" no result member, or null
\*   "bad"   {tools: [null]}: an array whose entry has no name
ResultShapes == {"ok", "empty", "undef", "bad"}

GoodTools == <<"ping">>
BadTools == <<"null">>

\* Results of tools/list with other well-formed catalogs:
\*   "dup"   {tools: [{name: "ping"}, {name: "ping"}]}
\*   "pair"  {tools: [{name: "ping"}, {name: "b_ping"}]}
CatalogShapes == ResultShapes \cup {"dup", "pair"}

\* toolsResponse.tools || [] for a result of the given shape.
catalog(shape) ==
  CASE shape = "ok" -> GoodTools
    [] shape = "dup" -> <<"ping", "ping">>
    [] shape = "pair" -> <<"ping", "b_ping">>
    [] shape = "bad" -> BadTools
    [] OTHER -> <<>>

\* The params of the handshake requests and of the notification are fixed
\* objects; those of tools/call are {name, arguments}.
NoParams == [name |-> "", arguments |-> ""]

\* The toolName and args a caller passes to executeMCPTool.
ToolNames == {"ping", "b_ping"}
Arguments == {"{}", "{q: 1}"}

\* One complete line of a process's stdout.
Lines ==
  [kind : {"result"}, id : 1..MaxReq, shape : ResultShapes]
    \cup [kind : {"error"}, id : 1..MaxReq, shape : {"none"}]
    \cup [kind : {"garbage"}, id : {0}, shape : {"none"}]
    \cup [kind : {"request"}, id : 1..MaxReq, shape : {"none"}]
    \cup [kind : {"notification"}, id : {0}, shape : {"none"}]

\* The same with the other catalogs.
CatalogLines == Lines \cup [kind : {"result"}, id : 1..MaxReq, shape : CatalogShapes]

World ==
  [servers |-> servers, conns |-> conns, timers |-> timers, inits |-> inits]

Commit(w) ==
  /\ servers' = w.servers
  /\ conns' = w.conns
  /\ timers' = w.timers
  /\ inits' = w.inits
  /\ UNCHANGED <<config, stream>>

\* ------------------------------------------- the stdout of one process
\* The bytes a process wrote, the bytes of them not yet delivered in a 'data'
\* event, server.buffer, and the lines handed to JSON.parse so far.  The
\* behaviours of the manager above the lines leave it as it is.

NoStream == [written |-> "", rest |-> "", buffer |-> "", parsed |-> <<>>, logged |-> 0]

\* ------------------------------------------- the registry Map<name, server>
\* A JavaScript Map keeps insertion order; set on a present key keeps its place.

mapKeys(m) == { m[i].name : i \in DOMAIN m }

mapHas(m, n) == n \in mapKeys(m)

mapGet(m, n) == (CHOOSE i \in DOMAIN m : m[i].name = n)

mapSet(m, n, c) ==
  IF mapHas(m, n)
  THEN [i \in DOMAIN m |-> IF m[i].name = n THEN [name |-> n, conn |-> c] ELSE m[i]]
  ELSE Append(m, [name |-> n, conn |-> c])

mapDelete(m, n) == SelectSeq(m, LAMBDA e : e.name # n)

\* pendingRequests: Map<id, {resolve, reject}>; the value is the waiter (the
\* promise) the two closures settle.
pendingSet(p, id, wi) == [i \in DOMAIN p \cup {id} |-> IF i = id THEN wi ELSE p[i]]

pendingDelete(p, id) == [i \in DOMAIN p \ {id} |-> p[i]]

\* ------------------------------------------------------------ sendRequest

\* Faulty variant: the notification is given an id and a pending entry.
sendNotification_asRequest(w, c, method) ==
  LET id == w.conns[c].requestId + 1
      wi == Len(w.conns[c].waiters) + 1
  IN [w EXCEPT
        !.conns[c].requestId = id,
        !.conns[c].waiters = Append(@, [method |-> method, id |-> id, outcomes |-> <<>>]),
        !.conns[c].pendingRequests = pendingSet(@, id, wi),
        !.conns[c].stdin =
          Append(@, [type |-> "notification", id |-> id, method |-> method, params |-> NoParams])]

sendNotification(w, c, method) ==
  [w EXCEPT !.conns[c].stdin =
     Append(@, [type |-> "notification", id |-> 0, method |-> method, params |-> NoParams])]

\* Faulty variant: the id is the smallest one that is not pending.
sendRequest_reuse(w, c, method, params) ==
  LET id == CHOOSE i \in 1..(Cardinality(DOMAIN w.conns[c].pendingRequests) + 1) :
              /\ i \notin DOMAIN w.conns[c].pendingRequests
              /\ \A j \in 1..(i - 1) : j \in DOMAIN w.conns[c].pendingRequests
      wi == Len(w.conns[c].waiters) + 1
  IN [w EXCEPT
        !.conns[c].requestId = id,
        !.conns[c].waiters = Append(@, [method |-> method, id |-> id, outcomes |-> <<>>]),
        !.conns[c].pendingRequests = pendingSet(@, id, wi),
        !.conns[c].stdin =
          Append(@, [type |-> "request", id |-> id, method |-> method, params |-> params]),
        !.timers = Append(@, [conn |-> c, id |-> id, waiter |-> wi])]

\* Faulty variant: the request is written and its pending entry is not
\* recorded in the same step.
sendRequest_unrecorded(w, c, method, params) ==
  LET id == w.conns[c].requestId + 1
      wi == Len(w.conns[c].waiters) + 1
  IN [w EXCEPT
        !.conns[c].requestId = id,
        !.conns[c].waiters = Append(@, [method |-> method, id |-> id, outcomes |-> <<>>]),
        !.conns[c].stdin =
          Append(@, [type |-> "request", id |-> id, method |-> method, params |-> params]),
        !.timers = Append(@, [conn |-> c, id |-> id, waiter |-> wi])]

\* Faulty variant: no timer is started for the request.
sendRequest_untimed(w, c, method, params) ==
  LET id == w.conns[c].requestId + 1
      wi == Len(w.conns[c].waiters) + 1
  IN [w EXCEPT
        !.conns[c].requestId = id,
        !.conns[c].waiters = Append(@, [method |-> method, id |-> id, outcomes |-> <<>>]),
        !.conns[c].pendingRequests = pendingSet(@, id, wi),
        !.conns[c].stdin =
          Append(@, [type |-> "request", id |-> id, method |-> method, params |-> params])]

sendRequest(w, c, method, params) ==
  LET id == w.conns[c].requestId + 1
      wi == Len(w.conns[c].waiters) + 1
  IN [w EXCEPT
        !.conns[c].requestId = id,
        !.conns[c].waiters = Append(@, [method |-> method, id |-> id, outcomes |-> <<>>]),
        !.conns[c].pendingRequests = pendingSet(@, id, wi),
        !.conns[c].stdin =
          Append(@, [type |-> "request", id |-> id, method |-> method, params |-> params]),
        !.timers = Append(@, [conn |-> c, id |-> id, waiter |-> wi])]

\* ---------------------------------------------- connectServer, initializeMCP

newServer(n, r) ==
  [name |-> n, run |-> r, tools |-> <<>>, requestId |-> 0,
   pendingRequests |-> <<>>, waiters |-> <<>>, stdin |-> <<>>,
   phase |-> "grace", proc |-> "running", killed |-> FALSE]

\* connectServer up to its first await: spawn, the server record, the
\* handlers, servers.set, and the 500 ms wait.
connectServer(w, r, n) ==
  LET c == Len(w.conns) + 1
  IN [w EXCEPT !.conns = Append(@, newServer(n, r)),
               !.servers = mapSet(@, n, c)]

\* The for loop of initializeMCP: the next configured server, or the end.
initAdvance(w, r) ==
  LET k == w.inits[r].k + 1
  IN IF k > Len(config)
     THEN [w EXCEPT !.inits[r].done = TRUE]
     ELSE connectServer([w EXCEPT !.inits[r].k = k], r, config[k])

initializeMCP(w) ==
  LET r == Len(w.inits) + 1
  IN initAdvance([w EXCEPT !.inits = Append(@, [k |-> 0, errors |-> 0, done |-> FALSE])], r)

\* connectServer after `await new Promise(resolve => setTimeout(resolve, 500))`.
graceElapsed(w, c) ==
  [sendRequest(w, c, "initialize", NoParams) EXCEPT !.conns[c].phase = "awaitInit"]

\* The catch block of connectServer, then the catch of initializeMCP's loop.
connectFailed(w, c) ==
  LET r == w.conns[c].run
      w1 == [w EXCEPT !.conns[c].killed = TRUE,
                      !.conns[c].phase = "failed",
                      !.servers = mapDelete(@, w.conns[c].name),
                      !.inits[r].errors = @ + 1]
  IN initAdvance(w1, r)

\* Faulty variant: tools/list is requested before the initialized notification
\* is written.
afterInitialize_listFirst(w, c, out) ==
  IF out.kind = "result"
  THEN [sendNotification(sendRequest(w, c, "tools/list", NoParams), c, "notifications/initialized")
          EXCEPT !.conns[c].phase = "awaitList"]
  ELSE connectFailed(w, c)

\* After `await sendRequest(server, 'initialize', ...)`.
afterInitialize(w, c, out) ==
  IF out.kind = "result"
  THEN [sendRequest(sendNotification(w, c, "notifications/initialized"), c, "tools/list", NoParams)
          EXCEPT !.conns[c].phase = "awaitList"]
  ELSE connectFailed(w, c)

\* After `await sendRequest(server, 'tools/list', {})`: toolsResponse.tools of an
\* absent result throws before the assignment; an entry without a name throws
\* in the forEach that logs the tools, after it.
afterToolsList(w, c, out, shape) ==
  IF out.kind # "result" \/ shape = "undef"
  THEN connectFailed(w, c)
  ELSE IF shape = "bad"
  THEN connectFailed([w EXCEPT !.conns[c].tools = catalog(shape)], c)
  ELSE initAdvance(
         [w EXCEPT !.conns[c].tools = catalog(shape),
                   !.conns[c].phase = "ready"],
         w.conns[c].run)

\* resolve / reject of waiter wi with a value of the given shape: a promise
\* keeps its first settlement, and the code awaiting it resumes once.
settle(w, c, wi, out, shape) ==
  LET first == w.conns[c].waiters[wi].outcomes = <<>>
      method == w.conns[c].waiters[wi].method
      w1 == [w EXCEPT !.conns[c].waiters[wi].outcomes = Append(@, out)]
  IN IF ~first THEN w1
     ELSE IF method = "initialize" THEN afterInitialize(w1, c, out)
     ELSE IF method = "tools/list" THEN afterToolsList(w1, c, out, shape)
     ELSE w1

\* ------------------------------------------------------------- the errors
\* What a caller catches: the class of the object and its message.

\* error.message of a response, chosen by the server.
ErrorMessages ==
  {"invalid arguments", "Request timeout: tools/call", "MCP server not connected: a"}

\* new Error(message.error.message)
remoteError(message) == [type |-> "Error", message |-> message]

\* new Error(`Request timeout: ${method}`)
timeoutError(method) == [type |-> "Error", message |-> "Request timeout: " \o method]

\* new Error(`MCP server not connected: ${serverName}`)
notConnectedError(serverName) ==
  [type |-> "Error", message |-> "MCP server not connected: " \o serverName]

\* ----------------------------------------------------- handleServerOutput

\* Faulty variant: the caller is settled and its entry stays in the table.
handleServerOutput_kept(w, c, line) ==
  IF line.kind \in {"garbage", "notification"} THEN w
  ELSE IF line.id \in DOMAIN w.conns[c].pendingRequests
  THEN settle(w, c, w.conns[c].pendingRequests[line.id],
              IF line.kind = "error"
              THEN [kind |-> "error", by |-> line.id]
              ELSE [kind |-> "result", by |-> line.id],
              IF line.kind = "request" THEN "undef" ELSE line.shape)
  ELSE w

\* Faulty variant: the response is given to the oldest pending request, as if
\* responses arrived in the order the requests were sent.
handleServerOutput_oldest(w, c, line) ==
  IF line.kind = "garbage" \/ DOMAIN w.conns[c].pendingRequests = {} THEN w
  ELSE LET id == CHOOSE i \in DOMAIN w.conns[c].pendingRequests :
                   \A j \in DOMAIN w.conns[c].pendingRequests : i <= j
           wi == w.conns[c].pendingRequests[id]
           w1 == [w EXCEPT !.conns[c].pendingRequests = pendingDelete(@, id)]
       IN settle(w1, c, wi, [kind |-> line.kind, by |-> line.id], line.shape)

\* Faulty variant: one pending table for all servers: the id is looked up on every
\* connection.
handleServerOutput_shared(w, c, line) ==
  LET on(v, d) ==
        IF line.kind # "garbage" /\ line.id \in DOMAIN v.conns[d].pendingRequests
        THEN settle([v EXCEPT !.conns[d].pendingRequests = pendingDelete(@, line.id)],
                    d, v.conns[d].pendingRequests[line.id],
                    [kind |-> line.kind, by |-> line.id], line.shape)
        ELSE v
      all[d \in 0..Len(w.conns)] == IF d = 0 THEN w ELSE on(all[d - 1], d)
  IN all[Len(w.conns)]

\* The body of the loop for one line that is not blank.  A line that JSON.parse
\* rejects ("garbage") is caught and logged; a message without an id (a
\* notification) fails the test of line 204; a message with an id and no error
\* member, a result or a request of the server, takes the else branch of line
\* 211: message.result of a request is undefined.
handleServerOutput(w, c, line) ==
  IF line.kind \in {"garbage", "notification"} THEN w
  ELSE IF line.id \in DOMAIN w.conns[c].pendingRequests
  THEN LET wi == w.conns[c].pendingRequests[line.id]
           w1 == [w EXCEPT !.conns[c].pendingRequests = pendingDelete(@, line.id)]
       IN settle(w1, c, wi,
                 IF line.kind = "error"
                 THEN [kind |-> "error", by |-> line.id]
                 ELSE [kind |-> "result", by |-> line.id],
                 IF line.kind = "request" THEN "undef" ELSE line.shape)
  ELSE w

\* Faulty variant: a timer whose request is settled rejects the latest request
\* that is pending on the connection.
requestTimeout_latest(w, c, id, wi) ==
  LET pending == w.conns[c].pendingRequests
      j == IF id \in DOMAIN pending THEN id
           ELSE CHOOSE i \in DOMAIN pending : \A k \in DOMAIN pending : k <= i
  IN IF DOMAIN pending = {} THEN w
     ELSE settle([w EXCEPT !.conns[c].pendingRequests = pendingDelete(@, j)], c, pending[j],
                 [kind |-> "timeout", by |-> 0], "none")

\* Faulty variant: the timer rejects without looking the id up.
requestTimeout_unchecked(w, c, id, wi) ==
  settle([w EXCEPT !.conns[c].pendingRequests = pendingDelete(@, id)], c, wi,
         [kind |-> "timeout", by |-> 0], "none")

\* Faulty variant: the timer rejects and leaves the entry in the table.
requestTimeout_kept(w, c, id, wi) ==
  IF id \in DOMAIN w.conns[c].pendingRequests
  THEN settle(w, c, wi, [kind |-> "timeout", by |-> 0], "none")
  ELSE w

\* The setTimeout callback of sendRequest.
requestTimeout(w, c, id, wi) ==
  IF id \in DOMAIN w.conns[c].pendingRequests
  THEN settle([w EXCEPT !.conns[c].pendingRequests = pendingDelete(@, id)], c, wi,
              [kind |-> "timeout", by |-> 0], "none")
  ELSE w

timerFires(w) ==
  LET t == Head(w.timers)
  IN requestTimeout([w EXCEPT !.timers = Tail(@)], t.conn, t.id, t.waiter)

\* Faulty variant: the exit handler leaves the registry alone.
onExit_kept(w, c) == [w EXCEPT !.conns[c].proc = "exited"]

\* Faulty variant: the exit handler clears the registry.
onExit_clear(w, c) == [w EXCEPT !.conns[c].proc = "exited", !.servers = <<>>]

\* Faulty variant: the exit handler connects the server again.
onExit_respawn(w, c) ==
  connectServer([w EXCEPT !.conns[c].proc = "exited",
                          !.servers = mapDelete(@, w.conns[c].name)],
                w.conns[c].run, w.conns[c].name)

\* proc.on('exit') and proc.on('error').
onExit(w, c) ==
  [w EXCEPT !.conns[c].proc = "exited", !.servers = mapDelete(@, w.conns[c].name)]

onError(w, c) ==
  [w EXCEPT !.conns[c].proc = "errored", !.servers = mapDelete(@, w.conns[c].name)]

\* ------------------------------------------------------ exported functions

\* Faulty variant: a name that is not in the registry is looked up among the
\* servers that were connected under it.
executeMCPTool_lastKnown(w, serverName, toolName, args) ==
  LET known == { c \in DOMAIN w.conns : w.conns[c].name = serverName }
  IN IF known = {}
     THEN [world |-> w, error |-> "not connected"]
     ELSE LET c == CHOOSE k \in known : \A j \in known : j <= k
          IN [world |-> sendRequest(w, c, "tools/call", [name |-> toolName, arguments |-> args]),
              error |-> "none"]

\* Faulty variant: the request is written to every server in the registry.
executeMCPTool_broadcast(w, serverName, toolName, args) ==
  IF ~mapHas(w.servers, serverName)
  THEN [world |-> w, error |-> "not connected"]
  ELSE LET upTo[i \in 0..Len(w.servers)] ==
             IF i = 0 THEN w
             ELSE sendRequest(upTo[i - 1], w.servers[i].conn, "tools/call",
                              [name |-> toolName, arguments |-> args])
       IN [world |-> upTo[Len(w.servers)], error |-> "none"]

\* executeMCPTool up to its await: the world it leaves and the error it throws.
executeMCPTool(w, serverName, toolName, args) ==
  IF ~mapHas(w.servers, serverName)
  THEN [world |-> w, error |-> "not connected"]
  ELSE LET c == w.servers[mapGet(w.servers, serverName)].conn
       IN [world |-> sendRequest(w, c, "tools/call", [name |-> toolName, arguments |-> args]),
           error |-> "none"]

\* Faulty variant: the catalogs of every connection ever created are listed.
getAllMCPTools_everSpawned(w) ==
  LET upTo[c \in 0..Len(w.conns)] ==
        IF c = 0 THEN <<>>
        ELSE upTo[c - 1] \o [k \in DOMAIN w.conns[c].tools |->
                               [name |-> w.conns[c].name \o "_" \o w.conns[c].tools[k],
                                serverName |-> w.conns[c].name]]
  IN upTo[Len(w.conns)]

\* Faulty variant: the raw names are listed.
getAllMCPTools_raw(w) ==
  LET upTo[i \in 0..Len(w.servers)] ==
        IF i = 0 THEN <<>>
        ELSE LET server == w.conns[w.servers[i].conn]
             IN upTo[i - 1] \o [k \in DOMAIN server.tools |->
                                  [name |-> server.tools[k],
                                   serverName |-> w.servers[i].name]]
  IN upTo[Len(w.servers)]

\* The entries in the order of the two loops: the registry in insertion order,
\* each catalog in the order the server reported it.
getAllMCPTools(w) ==
  LET upTo[i \in 0..Len(w.servers)] ==
        IF i = 0 THEN <<>>
        ELSE LET server == w.conns[w.servers[i].conn]
             IN upTo[i - 1] \o [k \in DOMAIN server.tools |->
                                  [name |-> w.servers[i].name \o "_" \o server.tools[k],
                                   serverName |-> w.servers[i].name]]
  IN upTo[Len(w.servers)]

startsWith(str, prefix) ==
  Len(prefix) <= Len(str) /\ SubSeq(str, 1, Len(prefix)) = prefix

\* Faulty variant: the longest registry key that matches is taken.
parseToolName_longest(w, prefixedName) ==
  LET hits == { i \in DOMAIN w.servers : startsWith(prefixedName, w.servers[i].name \o "_") }
  IN IF hits = {} THEN [null |-> TRUE, serverName |-> "", toolName |-> ""]
     ELSE LET i == CHOOSE h \in hits :
                     \A g \in hits : Len(w.servers[g].name) <= Len(w.servers[h].name)
              serverName == w.servers[i].name
          IN [null |-> FALSE, serverName |-> serverName,
              toolName |-> SubSeq(prefixedName, Len(serverName) + 2, Len(prefixedName))]

\* The result of parseToolName: null, or {serverName, toolName} of the first
\* registry key (insertion order) whose name and "_" start prefixedName.
parseToolName(w, prefixedName) ==
  LET hits == { i \in DOMAIN w.servers : startsWith(prefixedName, w.servers[i].name \o "_") }
  IN IF hits = {} THEN [null |-> TRUE, serverName |-> "", toolName |-> ""]
     ELSE LET i == CHOOSE h \in hits : \A g \in hits : h <= g
              serverName == w.servers[i].name
          IN [null |-> FALSE, serverName |-> serverName,
              toolName |-> SubSeq(prefixedName, Len(serverName) + 2, Len(prefixedName))]

isMCPEnabledIn(w) == Len(w.servers) > 0

\* The default case of executeTool (src/scripts/run-indexer.ts) up to its
\* await: a name that parses and an enabled registry route the call, anything
\* else is answered "Unknown tool" at once.
executeTool(w, name, args) ==
  LET parsed == parseToolName(w, name)
  IN IF ~parsed.null /\ isMCPEnabledIn(w)
     THEN executeMCPTool(w, parsed.serverName, parsed.toolName, args)
     ELSE [world |-> w, error |-> "unknown tool"]

\* formatDescription for a tool without description: the server name with its
\* first character in upper case, in brackets, and the default text.
formatDescription(serverName) ==
  LET first == SubSeq(serverName, 1, 1)
      upper == IF first = "a" THEN "A" ELSE IF first = "b" THEN "B" ELSE first
  IN "[" \o upper \o SubSeq(serverName, 2, Len(serverName)) \o "] No description available"

mcpToolToOpenAI(tool) ==
  [type |-> "function",
   function |-> [name |-> tool.name, description |-> formatDescription(tool.serverName)]]

\* tools.map(mcpToolToOpenAI)
mcpToolsToOpenAI(tools) == [i \in DOMAIN tools |-> mcpToolToOpenAI(tools[i])]

\* formatMCPResult for a result that is undefined and for the object {}.
formatMCPResult(shape) ==
  IF shape = "undef" THEN "Operation completed successfully." ELSE "{}"

\* The ways the promise of executeMCPTool settles once its request is written.
Settlements ==
  [kind : {"result"}, shape : {"undef", "empty"}, message : {""}]
    \cup [kind : {"error"}, shape : {"none"}, message : ErrorMessages]
    \cup [kind : {"timeout"}, shape : {"none"}, message : {""}]

\* Faulty variant: the catch block logs the error and throws it again.
executeToolReturn_rethrow(w, name, args, how) ==
  LET parsed == parseToolName(w, name)
  IN IF parsed.null \/ ~isMCPEnabledIn(w)
     THEN [thrown |-> FALSE, value |-> "Unknown tool: " \o name]
     ELSE IF executeMCPTool(w, parsed.serverName, parsed.toolName, args).error = "not connected"
     THEN [thrown |-> TRUE, value |-> notConnectedError(parsed.serverName).message]
     ELSE IF how.kind = "timeout"
     THEN [thrown |-> TRUE, value |-> timeoutError("tools/call").message]
     ELSE IF how.kind = "error"
     THEN [thrown |-> TRUE, value |-> remoteError(how.message).message]
     ELSE [thrown |-> FALSE, value |-> formatMCPResult(how.shape)]

\* What executeTool returns to the agent loop for a name that is none of the
\* agent's own tools, when the call it made settles as `how`: the default case
\* and the catch block around the switch.
executeToolReturn(w, name, args, how) ==
  LET parsed == parseToolName(w, name)
      caught(error) == [thrown |-> FALSE, value |-> "Error: " \o error.message]
  IN IF parsed.null \/ ~isMCPEnabledIn(w)
     THEN [thrown |-> FALSE, value |-> "Unknown tool: " \o name]
     ELSE IF executeMCPTool(w, parsed.serverName, parsed.toolName, args).error = "not connected"
     THEN caught(notConnectedError(parsed.serverName))
     ELSE IF how.kind = "timeout"
     THEN caught(timeoutError("tools/call"))
     ELSE IF how.kind = "error"
     THEN caught(remoteError(how.message))
     ELSE [thrown |-> FALSE, value |-> formatMCPResult(how.shape)]

\* Faulty variant: the processes are killed and the registry is kept.
shutdownMCP_kept(w) ==
  [w EXCEPT !.conns = [c \in DOMAIN w.conns |->
                         IF \E i \in DOMAIN w.servers : w.servers[i].conn = c
                         THEN [w.conns[c] EXCEPT !.killed = TRUE]
                         ELSE w.conns[c]]]

shutdownMCP(w) ==
  [w EXCEPT !.conns = [c \in DOMAIN w.conns |->
                         IF \E i \in DOMAIN w.servers : w.servers[i].conn = c
                         THEN [w.conns[c] EXCEPT !.killed = TRUE]
                         ELSE w.conns[c]],
            !.servers = <<>>]

isMCPEnabled == isMCPEnabledIn(World)

getConnectedServers == [i \in DOMAIN servers |-> servers[i].name]

\* ------------------------------------------------------------------ Init

Init ==
  /\ servers = <<>>
  /\ conns = <<>>
  /\ timers = <<>>
  /\ inits = <<>>
  /\ config \in Configs
  /\ stream = NoStream

\* --------------------------------------------------------------- actions

\* initializeMCP is called once, at start-up (src/unnamed/part_001, line 21).
InitializeMCP ==
  /\ inits = <<>>
  /\ Commit(initializeMCP(World))

\* The 500 ms timer of connectServer fires: the initialize request is sent.
GraceElapsed(c) ==
  /\ conns[c].phase = "grace"
  /\ Commit(graceElapsed(World, c))

\* A line of stdout; what a process wrote before it ended may still arrive
\* after its exit event.  The ids and results that are left out act like one
\* that is kept: an id beyond the next unused one is as unknown as the next
\* unused one, and only the continuation of tools/list reads the result.
ServerOutput(c, line) ==
  /\ conns[c].proc # "errored"
  /\ line.id <= conns[c].requestId + 1
  /\ \/ line.shape \in {"ok", "none"}
     \/ /\ line.id \in DOMAIN conns[c].pendingRequests
        /\ conns[c].waiters[conns[c].pendingRequests[line.id]].method = "tools/list"
  /\ Commit(handleServerOutput(World, c, line))

\* Every request timer waits the same 30000 ms: they fire in creation order.
RequestTimeout ==
  /\ timers # <<>>
  /\ Commit(timerFires(World))

ProcessExit(c) ==
  /\ conns[c].proc = "running"
  /\ Commit(onExit(World, c))

\* The process could not be spawned.
ProcessError(c) ==
  /\ conns[c].proc = "running"
  /\ conns[c].phase = "grace"
  /\ Commit(onError(World, c))

callsSent ==
  LET n[c \in 0..Len(conns)] ==
        IF c = 0 THEN 0
        ELSE n[c - 1] + Len(SelectSeq(conns[c].waiters, LAMBDA x : x.method = "tools/call"))
  IN n[Len(conns)]

\* The callers of the behaviours explored pass one tool name and one argument
\* object; nothing in the module reads them.
Call(n, limit) ==
  /\ mapHas(servers, n) => callsSent < limit
  /\ Commit(executeMCPTool(World, n, "ping", "{}").world)

ExecuteMCPTool(n) == Call(n, MaxCalls)

ShutdownMCP == Commit(shutdownMCP(World))

Next ==
  \/ InitializeMCP
  \/ \E c \in DOMAIN conns : GraceElapsed(c)
  \/ \E c \in DOMAIN conns : \E line \in Lines : ServerOutput(c, line)
  \/ RequestTimeout
  \/ \E c \in DOMAIN conns : ProcessExit(c)
  \/ \E c \in DOMAIN conns : ProcessError(c)
  \/ \E n \in Names : ExecuteMCPTool(n)
  \/ ShutdownMCP

Spec == Init /\ [][Next]_vars

\* ------------------------------------------- one configured server
\* The same program with a configuration of one server.

InitOne == Init /\ config = <<"a">>

SpecOne == InitOne /\ [][Next]_vars

\* The same with time going on: a timer that was started fires, 30000 ms
\* later.  Nothing is assumed of the server, the process or the callers.
SpecTimers == InitOne /\ [][Next]_vars /\ WF_vars(RequestTimeout)

\* ------------------------------------------- initializeMCP called again
\* initializeMCP and shutdownMCP are exported: a caller may start the servers
\* again, after a shutdown, after a failure or while a run is in progress.
\* There are no callers of executeMCPTool here.

\* Calls of initializeMCP in one behaviour.
MaxInits == 2

InitializeMCPAgain ==
  /\ Len(inits) < MaxInits
  /\ Commit(initializeMCP(World))

AgainConfigs == { <<"a">> }

InitAgain ==
  /\ servers = <<>>
  /\ conns = <<>>
  /\ timers = <<>>
  /\ inits = <<>>
  /\ config \in AgainConfigs
  /\ stream = NoStream

NextAgain ==
  \/ InitializeMCPAgain
  \/ \E c \in DOMAIN conns : GraceElapsed(c)
  \/ \E c \in DOMAIN conns : \E line \in Lines : ServerOutput(c, line)
  \/ RequestTimeout
  \/ \E c \in DOMAIN conns : ProcessExit(c)
  \/ \E c \in DOMAIN conns : ProcessError(c)
  \/ ShutdownMCP

SpecAgain == InitAgain /\ [][NextAgain]_vars

\* ------------------------------------------- names and catalogs
\* The same program without callers of executeMCPTool, with configurations
\* whose server names hold the separator and servers that report the other
\* catalogs.

CatalogConfigs == { <<"a", "b">>, <<"a", "a_b">>, <<"a_b", "a">>, <<"a", "a">> }

InitCatalog ==
  /\ servers = <<>>
  /\ conns = <<>>
  /\ timers = <<>>
  /\ inits = <<>>
  /\ config \in CatalogConfigs
  /\ stream = NoStream

NextCatalog ==
  \/ InitializeMCP
  \/ \E c \in DOMAIN conns : GraceElapsed(c)
  \/ \E c \in DOMAIN conns : \E line \in CatalogLines : ServerOutput(c, line)
  \/ RequestTimeout
  \/ \E c \in DOMAIN conns : ProcessExit(c)
  \/ \E c \in DOMAIN conns : ProcessError(c)
  \/ ShutdownMCP

SpecCatalog == InitCatalog /\ [][NextCatalog]_vars

\* ------------------------------------------- both servers connected
\* The state initializeMCP leaves when both servers of <<"a", "b">> answer the
\* handshake and the four handshake timers have fired since: the handlers
\* above, applied in that order.

EmptyWorld == [servers |-> <<>>, conns |-> <<>>, timers |-> <<>>, inits |-> <<>>]

okResult(id) == [kind |-> "result", id |-> id, shape |-> "ok"]

handshaken(w, c) ==
  handleServerOutput(handleServerOutput(graceElapsed(w, c), c, okResult(1)), c, okResult(2))

ReadyWorld ==
  timerFires(timerFires(timerFires(timerFires(
    handshaken(handshaken(initializeMCP(EmptyWorld), 1), 2)))))

InitReady ==
  /\ config = <<"a", "b">>
  /\ servers = ReadyWorld.servers
  /\ conns = ReadyWorld.conns
  /\ timers = ReadyWorld.timers
  /\ inits = ReadyWorld.inits
  /\ stream = NoStream

ExecuteMCPToolReady(n) == Call(n, MaxReadyCalls)

NextReady ==
  \/ \E c \in DOMAIN conns : \E line \in Lines : ServerOutput(c, line)
  \/ RequestTimeout
  \/ \E c \in DOMAIN conns : ProcessExit(c)
  \/ \E n \in Names : ExecuteMCPToolReady(n)
  \/ ShutdownMCP

SpecReady == InitReady /\ [][NextReady]_vars

\* ------------------------------------------- chunks of stdout
\* One process writes a text and the pipe delivers its bytes in chunks cut
\* anywhere.  A text is a string of the characters "x", " ", newline and "e",
\* where "e" stands for a character of two UTF-8 bytes, a lead byte "L" and a
\* continuation byte "T"; "?" is U+FFFD.

MaxText == 4

Chars == {"x", " ", "\n", "e"}

Texts ==
  LET upTo[n \in 0..MaxText] ==
        IF n = 0 THEN {""}
        ELSE upTo[n - 1] \cup { t \o ch : t \in upTo[n - 1], ch \in Chars }
  IN upTo[MaxText]

\* The bytes of a text (what the process writes).
RECURSIVE encode(_)
encode(text) ==
  IF text = "" THEN ""
  ELSE (IF SubSeq(text, 1, 1) = "e" THEN "LT" ELSE SubSeq(text, 1, 1))
         \o encode(SubSeq(text, 2, Len(text)))

\* data.toString(): the utf8 decoding of one Buffer on its own.  A lead byte
\* without its continuation byte and a continuation byte without its lead byte
\* decode to U+FFFD.
RECURSIVE toString(_)
toString(bytes) ==
  IF bytes = "" THEN ""
  ELSE IF SubSeq(bytes, 1, 1) = "L"
  THEN IF Len(bytes) >= 2 /\ SubSeq(bytes, 2, 2) = "T"
       THEN "e" \o toString(SubSeq(bytes, 3, Len(bytes)))
       ELSE "?" \o toString(SubSeq(bytes, 2, Len(bytes)))
  ELSE IF SubSeq(bytes, 1, 1) = "T"
  THEN "?" \o toString(SubSeq(bytes, 2, Len(bytes)))
  ELSE SubSeq(bytes, 1, 1) \o toString(SubSeq(bytes, 2, Len(bytes)))

\* str.split('\n')
RECURSIVE split(_)
split(str) ==
  LET at == { k \in 1..Len(str) : SubSeq(str, k, k) = "\n" }
  IN IF at = {} THEN <<str>>
     ELSE LET k == CHOOSE i \in at : \A j \in at : i <= j
          IN <<SubSeq(str, 1, k - 1)>> \o split(SubSeq(str, k + 1, Len(str)))

\* !line.trim()
isBlank(line) == \A k \in 1..Len(line) : SubSeq(line, k, k) = " "

\* Faulty variant: what is left in the buffer is dropped when a chunk arrives.
bufferLines_fresh(f, data) ==
  LET lines == split(data)
  IN [f EXCEPT !.buffer = lines[Len(lines)],
               !.parsed = @ \o SelectSeq(SubSeq(lines, 1, Len(lines) - 1),
                                         LAMBDA l : ~isBlank(l))]

\* handleServerOutput down to JSON.parse: the chunk is appended to the buffer,
\* the last piece of the split is kept, the others that are not blank are
\* parsed in order.
bufferLines(f, data) ==
  LET lines == split(f.buffer \o data)
  IN [f EXCEPT !.buffer = lines[Len(lines)],
               !.parsed = @ \o SelectSeq(SubSeq(lines, 1, Len(lines) - 1),
                                         LAMBDA l : ~isBlank(l))]

\* proc.stdout.on('data'): the next n bytes arrive as one Buffer.
onData(f, n) ==
  bufferLines([f EXCEPT !.rest = SubSeq(@, n + 1, Len(@))], toString(SubSeq(f.rest, 1, n)))

\* Lines of JSON-RPC messages, written short: "r3" is a response with id 3 and
\* a result, "f4" a response with id 4 and an error member, "q3" a request of
\* the server with id 3 and a method, "n" a notification; JSON.parse allows
\* white space around the value.  Every other line is not JSON.
StdoutLines == {"r3", "f4", "q3", "n", "x", "", " "}

\* Lines in one text of whole messages.
MaxMessages == 3

MessageTexts ==
  LET upTo[n \in 0..MaxMessages] ==
        IF n = 0 THEN {""}
        ELSE upTo[n - 1] \cup { t \o l \o "\n" : t \in upTo[n - 1], l \in StdoutLines }
  IN upTo[MaxMessages]

RECURSIVE trim(_)
trim(str) ==
  IF str = "" THEN ""
  ELSE IF SubSeq(str, 1, 1) = " " THEN trim(SubSeq(str, 2, Len(str)))
  ELSE IF SubSeq(str, Len(str), Len(str)) = " " THEN trim(SubSeq(str, 1, Len(str) - 1))
  ELSE str

\* JSON.parse(line) and the members the loop reads, as a line of Lines.
parseLine(line) ==
  LET t == trim(line)
      id == IF Len(t) = 2 /\ SubSeq(t, 2, 2) = "3" THEN 3
            ELSE IF Len(t) = 2 /\ SubSeq(t, 2, 2) = "4" THEN 4 ELSE 0
  IN IF t = "n" THEN [kind |-> "notification", id |-> 0, shape |-> "none"]
     ELSE IF id # 0 /\ SubSeq(t, 1, 1) = "r" THEN [kind |-> "result", id |-> id, shape |-> "ok"]
     ELSE IF id # 0 /\ SubSeq(t, 1, 1) = "f" THEN [kind |-> "error", id |-> id, shape |-> "none"]
     ELSE IF id # 0 /\ SubSeq(t, 1, 1) = "q" THEN [kind |-> "request", id |-> id, shape |-> "none"]
     ELSE [kind |-> "garbage", id |-> 0, shape |-> "none"]

\* Faulty variant: the loop ends at the first line that is not JSON.
dispatchLines_untilMalformed(w, c, lines) ==
  LET upTo[k \in 0..Len(lines)] ==
        IF k = 0 THEN [world |-> w, stopped |-> FALSE]
        ELSE IF upTo[k - 1].stopped \/ parseLine(lines[k]).kind = "garbage"
        THEN [world |-> upTo[k - 1].world, stopped |-> TRUE]
        ELSE [world |-> handleServerOutput(upTo[k - 1].world, c, parseLine(lines[k])),
              stopped |-> FALSE]
  IN upTo[Len(lines)].world

\* The for loop of handleServerOutput over the lines that are not blank.
dispatchLines(w, c, lines) ==
  LET upTo[k \in 0..Len(lines)] ==
        IF k = 0 THEN w
        ELSE handleServerOutput(upTo[k - 1], c, parseLine(lines[k]))
  IN upTo[Len(lines)]

\* The connection whose stdout is followed: server a after its handshake and
\* the handshake timers, with two calls of executeMCPTool pending (ids 3, 4).
StreamWorld ==
  executeMCPTool(
    executeMCPTool(
      timerFires(timerFires(handshaken(initializeMCP(EmptyWorld), 1))),
      "a", "ping", "{}").world,
    "a", "ping", "{}").world

InitStream ==
  /\ config = <<"a">>
  /\ servers = StreamWorld.servers
  /\ conns = StreamWorld.conns
  /\ timers = StreamWorld.timers
  /\ inits = StreamWorld.inits
  /\ \E text \in Texts \cup MessageTexts :
       stream = [written |-> encode(text), rest |-> encode(text),
                 buffer |-> "", parsed |-> <<>>, logged |-> 0]

\* One 'data' event: the whole of handleServerOutput for the chunk.
StdoutData(n) ==
  LET f == onData(stream, n)
      w == dispatchLines(World, 1, SubSeq(f.parsed, Len(stream.parsed) + 1, Len(f.parsed)))
  IN /\ stream' = f
     /\ servers' = w.servers
     /\ conns' = w.conns
     /\ timers' = w.timers
     /\ inits' = w.inits
     /\ UNCHANGED config

\* Chunks of stderr in one behaviour.
MaxStderr == 1

\* Faulty variant: what the process writes to stderr is read as its stdout is.
onStderr_parsed(w, c, data) == dispatchLines(w, c, <<data>>)

\* proc.stderr.on('data'): the text goes to logger.debug and nowhere else.
onStderr(w, c, data) == w

\* One 'data' event of stderr; the process may write there what it could have
\* written to stdout.
StderrData(text) ==
  LET w == onStderr(World, 1, text)
  IN /\ stream.logged < MaxStderr
     /\ stream' = [stream EXCEPT !.logged = @ + 1]
     /\ servers' = w.servers
     /\ conns' = w.conns
     /\ timers' = w.timers
     /\ inits' = w.inits
     /\ UNCHANGED config

NextStream ==
  \/ \E n \in 1..Len(stream.rest) : StdoutData(n)
  \/ \E text \in StdoutLines : StderrData(text)

SpecStream == InitStream /\ [][NextStream]_vars

\* ================================================================ claims

Conns == DOMAIN conns

WaitersOf(c) == DOMAIN conns[c].waiters

isPending(w, c, wi) ==
  /\ w.conns[c].waiters[wi].id \in DOMAIN w.conns[c].pendingRequests
  /\ w.conns[c].pendingRequests[w.conns[c].waiters[wi].id] = wi

\* A response: an id with a result or an error member.
Responses == { line \in Lines : line.kind \in {"result", "error"} }

\* C1: each response settles exactly the caller whose request id equals the
\* response id, in whatever order the responses arrive: every result or error a
\* caller got came from a response with the caller's own id, and a response
\* for a pending id settles the request with that id and no other.
C1_ResponseGoesToItsRequest ==
  /\ \A c \in Conns : \A wi \in WaitersOf(c) :
       \A k \in DOMAIN conns[c].waiters[wi].outcomes :
         conns[c].waiters[wi].outcomes[k].kind # "timeout"
           => conns[c].waiters[wi].outcomes[k].by = conns[c].waiters[wi].id
  /\ \A c \in Conns : \A line \in Responses :
       LET after == handleServerOutput(World, c, line).conns[c].waiters
       IN \A wi \in WaitersOf(c) :
            IF conns[c].waiters[wi].id = line.id /\ isPending(World, c, wi)
            THEN after[wi].outcomes = <<[kind |-> line.kind, by |-> line.id]>>
            ELSE after[wi] = conns[c].waiters[wi]

\* Three calls were outstanding on one connection and the last was answered
\* first.
C1_Witness ==
  \E c \in Conns :
    /\ Len(conns[c].waiters) = 5
    /\ conns[c].waiters[5].outcomes = <<[kind |-> "result", by |-> 5]>>
    /\ isPending(World, c, 3)
    /\ isPending(World, c, 4)

\* C2: a request has at most one outcome, a result, a server error or a
\* timeout, however responses (duplicates included) and timers interleave, and
\* its entry is in the pending table exactly as long as it has none.
C2_SettledOnce ==
  \A c \in Conns : \A wi \in WaitersOf(c) :
    /\ Len(conns[c].waiters[wi].outcomes) <= 1
    /\ \A k \in DOMAIN conns[c].waiters[wi].outcomes :
         conns[c].waiters[wi].outcomes[k].kind \in {"result", "error", "timeout"}
    /\ isPending(World, c, wi) <=> conns[c].waiters[wi].outcomes = <<>>

timerArmed(c, id) == \E i \in DOMAIN timers : timers[i].conn = c /\ timers[i].id = id

\* A call was answered and its timer fired afterwards, while another call on
\* the same connection timed out.
C2_Witness ==
  \E c \in Conns : \E wi, wj \in WaitersOf(c) :
    /\ conns[c].waiters[wi].method = "tools/call"
    /\ conns[c].waiters[wi].outcomes = <<[kind |-> "error", by |-> conns[c].waiters[wi].id]>>
    /\ ~timerArmed(c, conns[c].waiters[wi].id)
    /\ conns[c].waiters[wj].method = "tools/call"
    /\ conns[c].waiters[wj].outcomes = <<[kind |-> "timeout", by |-> 0]>>

\* C3: a timer that fires while its request is pending rejects the caller with
\* a timeout and removes the id; a response whose id is not pending (one that
\* arrives after the timeout) changes nothing at all.
C3_TimeoutThenLateResponse ==
  /\ \A c \in Conns : \A wi \in WaitersOf(c) :
       (conns[c].waiters[wi].outcomes # <<>>
          /\ conns[c].waiters[wi].outcomes[1].kind = "timeout")
         => /\ conns[c].waiters[wi].outcomes = <<[kind |-> "timeout", by |-> 0]>>
            /\ conns[c].waiters[wi].id \notin DOMAIN conns[c].pendingRequests
  /\ timers # <<>> =>
       LET t == Head(timers)
           after == timerFires(World).conns[t.conn]
       IN isPending(World, t.conn, t.waiter)
            => /\ after.waiters[t.waiter].outcomes = <<[kind |-> "timeout", by |-> 0]>>
               /\ t.id \notin DOMAIN after.pendingRequests
  /\ \A c \in Conns : \A line \in Lines :
       line.id \notin DOMAIN conns[c].pendingRequests
         => handleServerOutput(World, c, line) = World

\* A call timed out on a process that is still running (so that its answer can
\* still arrive) while another call is pending on the same connection.
C3_Witness ==
  \E c \in Conns : \E wi, wj \in WaitersOf(c) :
    /\ conns[c].proc = "running"
    /\ conns[c].waiters[wi].method = "tools/call"
    /\ conns[c].waiters[wi].outcomes = <<[kind |-> "timeout", by |-> 0]>>
    /\ isPending(World, c, wj)

\* C4 (the claim as stated): when a process exits, no request of its
\* connection stays pending.
C4_ExitRejectsPending ==
  [][\A c \in Conns :
       (conns[c].proc = "running" /\ conns'[c].proc # "running")
         => DOMAIN conns'[c].pendingRequests = {}]_vars

\* C5: a response on one connection leaves every other connection as it is,
\* also one on which the same id is pending, and a response whose id is not
\* pending on the connection it arrived on is discarded.
C5_ResponseStaysOnItsConnection ==
  \A c \in Conns : \A line \in Responses :
    LET after == handleServerOutput(World, c, line)
    IN /\ \A d \in Conns : d # c => after.conns[d] = conns[d]
       /\ line.id \notin DOMAIN conns[c].pendingRequests => after = World

\* The same id was pending on both connections; one was answered and the
\* other is still pending.
C5_Witness ==
  \E c, d \in Conns : \E wi \in WaitersOf(c) : \E wj \in WaitersOf(d) :
    /\ c # d
    /\ conns[c].waiters[wi].method = "tools/call"
    /\ conns[c].waiters[wi].id = conns[d].waiters[wj].id
    /\ conns[c].waiters[wi].outcomes = <<[kind |-> "result", by |-> conns[c].waiters[wi].id]>>
    /\ isPending(World, d, wj)

registered(w, c) == \E i \in DOMAIN w.servers : w.servers[i].conn = c

\* C6: once the process of a connected server has exited, the server's name is
\* not in the registry, and executeMCPTool with that name throws "not
\* connected" and changes nothing: no request is written to any process, no id
\* is used, nothing becomes pending.
C6_ExitedServerNotConnected ==
  \A c \in Conns :
    conns[c].proc = "exited"
      => /\ ~mapHas(servers, conns[c].name)
         /\ \A t \in ToolNames : \A a \in Arguments :
              executeMCPTool(World, conns[c].name, t, a)
                = [world |-> World, error |-> "not connected"]

\* The same while initializeMCP is running, where a name can come back: the
\* exit of a process removes the entry under its name, a name that is out of
\* the registry stays out until connectServer spawns a connection under that
\* name (a configuration that lists the name twice), and while it is out a call
\* naming it throws and changes nothing.
ExitRemovesUntilReconnected ==
  [][/\ \A c \in Conns :
          (conns[c].proc = "running" /\ conns'[c].proc # "running")
            => ~mapHas(servers', conns[c].name)
     /\ \A n \in Names :
          (~mapHas(servers, n) /\ mapHas(servers', n))
            => /\ Len(conns') = Len(conns) + 1
               /\ conns'[Len(conns')].name = n
     /\ \A n \in Names :
          ~mapHas(servers', n)
            => executeMCPTool([servers |-> servers', conns |-> conns',
                               timers |-> timers', inits |-> inits'], n, "ping", "{}")
                 = [world |-> [servers |-> servers', conns |-> conns',
                               timers |-> timers', inits |-> inits'],
                    error |-> "not connected"]]_vars

\* A server that finished its handshake has exited; its name is not connected
\* and a call naming it throws.
C6_Witness ==
  \E c \in Conns :
    /\ conns[c].phase = "ready"
    /\ conns[c].proc = "exited"
    /\ ~conns[c].killed
    /\ ~mapHas(servers, conns[c].name)
    /\ executeMCPTool(World, conns[c].name, "ping", "{}").error = "not connected"

\* C7: the exit of one process leaves every other connection's record (tool
\* catalog, request-id counter, pending table) as it is, keeps the registry
\* entry of every server with another name, and leaves isMCPEnabled() true
\* when such a server is registered.
C7_ExitLeavesOtherServers ==
  \A c \in Conns :
    LET after == onExit(World, c)
    IN /\ \A d \in Conns : d # c => after.conns[d] = conns[d]
       /\ \A i \in DOMAIN servers :
            servers[i].name # conns[c].name
              => /\ \E j \in DOMAIN after.servers : after.servers[j] = servers[i]
                 /\ isMCPEnabledIn(after)

\* One connected server's process has exited and is out of the registry; the
\* other is connected with a call pending, and isMCPEnabled() is true.
C7_Witness ==
  \E c, d \in Conns :
    /\ conns[c].phase = "ready" /\ conns[c].proc = "exited" /\ ~conns[c].killed
    /\ ~registered(World, c)
    /\ conns[d].phase = "ready" /\ conns[d].proc = "running"
    /\ registered(World, d)
    /\ DOMAIN conns[d].pendingRequests # {}
    /\ isMCPEnabled

\* A connection is Ready when its handshake is complete (initialize,
\* notifications/initialized and a successful tools/list) and it is connected.
Ready(c) == conns[c].phase = "ready" /\ registered(World, c)

\* C8 (the claim as stated): isMCPEnabled() is true exactly when some
\* connection is Ready.
C8_EnabledIffReady == isMCPEnabled <=> \E c \in Conns : Ready(c)

\* C9 (the claim as stated): every connection in the registry has completed
\* its handshake.
C9_RegisteredIsReady ==
  \A i \in DOMAIN servers : conns[servers[i].conn].phase = "ready"

\* C10 (the claim as stated): when connectServer has failed, the process was
\* sent a kill, the connection is not in the registry, its tool catalog is
\* empty and initializeMCP caught the failure.
C10_FailedHandshakeLeavesNothing ==
  \A c \in Conns :
    conns[c].phase = "failed"
      => /\ conns[c].killed
         /\ ~registered(World, c)
         /\ conns[c].tools = <<>>
         /\ inits[conns[c].run].errors >= 1

\* The connections a run of initializeMCP spawned, in the order of the loop.
spawnedBy(r) == SelectSeq([c \in DOMAIN conns |-> c], LAMBDA c : conns[c].run = r)

\* C11 (the claim as stated): when initializeMCP has returned it has spawned one
\* connection for every configured server, in the order of the configuration
\* and whatever happened to the others, and every connection whose handshake
\* succeeded and whose process is alive (not exited, not sent a kill) is in the
\* registry.
C11_InitializeAttemptsAll ==
  \A r \in DOMAIN inits :
    inits[r].done
      => /\ Len(spawnedBy(r)) = Len(config)
         /\ \A k \in DOMAIN config : conns[spawnedBy(r)[k]].name = config[k]
         /\ \A c \in Conns :
              (conns[c].run = r /\ conns[c].phase = "ready"
                 /\ conns[c].proc = "running" /\ ~conns[c].killed)
                => registered(World, c)

\* The same for a configuration whose names are distinct.
InitializeAttemptsAllDistinct ==
  (\A i, j \in DOMAIN config : config[i] = config[j] => i = j)
    => C11_InitializeAttemptsAll

\* The methods of the handshake messages written to a process, in the order of
\* writing (a tools/call sent by executeMCPTool in between is left out).
handshakeWritten(c) ==
  LET hs == SelectSeq(conns[c].stdin, LAMBDA m : m.method # "tools/call")
  IN [i \in DOMAIN hs |-> <<hs[i].type, hs[i].method>>]

HandshakeMessages ==
  << <<"request", "initialize">>,
     <<"notification", "notifications/initialized">>,
     <<"request", "tools/list">> >>

\* The request of the given method got a result.
answered(c, method) ==
  \E wi \in WaitersOf(c) :
    /\ conns[c].waiters[wi].method = method
    /\ conns[c].waiters[wi].outcomes # <<>>
    /\ conns[c].waiters[wi].outcomes[1].kind = "result"

\* What has been written in each lifecycle state: nothing before the grace
\* delay is over (Spawned), the initialize request while it is awaited
\* (Initializing), all three from the moment initialize succeeded (Initialized,
\* Discovering, Ready); a Failed connection failed in one of the two awaits.
phaseWritten(c) ==
  CASE conns[c].phase = "grace" -> handshakeWritten(c) = <<>>
    [] conns[c].phase = "awaitInit" -> handshakeWritten(c) = SubSeq(HandshakeMessages, 1, 1)
    [] conns[c].phase = "awaitList" ->
         handshakeWritten(c) = HandshakeMessages /\ answered(c, "initialize")
    [] conns[c].phase = "ready" ->
         /\ handshakeWritten(c) = HandshakeMessages
         /\ answered(c, "initialize") /\ answered(c, "tools/list")
    [] conns[c].phase = "failed" ->
         \/ handshakeWritten(c) = SubSeq(HandshakeMessages, 1, 1) /\ ~answered(c, "initialize")
         \/ handshakeWritten(c) = HandshakeMessages /\ answered(c, "initialize")

phaseStep(p, q) ==
  \/ p = q
  \/ p = "grace" /\ q = "awaitInit"
  \/ p = "awaitInit" /\ q \in {"awaitList", "failed"}
  \/ p = "awaitList" /\ q \in {"ready", "failed"}

\* C12: the handshake messages are written in the order initialize,
\* notifications/initialized, tools/list, the notification and tools/list only
\* when initialize got a result, and a connection's lifecycle state only moves
\* one step forward along Spawned, Initializing, Discovering, Ready, or from an
\* awaited step to Failed, and never out of Failed or Ready.
C12_HandshakeOrder ==
  /\ [](\A c \in Conns : phaseWritten(c))
  /\ [][\A c \in Conns : phaseStep(conns[c].phase, conns'[c].phase)]_vars

\* A connection is Ready with the three messages written; a tools/call was
\* written to it before the initialize request.
C12_Witness ==
  \E c \in Conns :
    /\ conns[c].phase = "ready"
    /\ conns[c].stdin[1].method = "tools/call"
    /\ handshakeWritten(c) = HandshakeMessages

\* The catalog changes only in the step in which the awaited tools/list
\* resolves, and it is never assigned a second time.
CatalogAssignedOnce ==
  [][\A c \in Conns :
       conns'[c].tools # conns[c].tools
         => /\ conns[c].tools = <<>>
            /\ conns[c].phase = "awaitList"
            /\ \E wi \in WaitersOf(c) :
                 /\ conns[c].waiters[wi].method = "tools/list"
                 /\ conns[c].waiters[wi].outcomes = <<>>
                 /\ conns'[c].waiters[wi].outcomes
                      = <<[kind |-> "result", by |-> conns[c].waiters[wi].id]>>]_vars

\* C13 (the claim as stated): the catalog is assigned at most once, in the
\* step in which tools/list succeeds; it is empty before that and after any
\* handshake failure, and a populated catalog never changes.
C13_CatalogPopulatedOnce ==
  /\ [](\A c \in Conns : conns[c].phase # "ready" => conns[c].tools = <<>>)
  /\ CatalogAssignedOnce

\* The raw tool names a server of the model reports.
RawNames == {"ping", "b_ping", "null"}

occurrences(seq, x) == Cardinality({ k \in DOMAIN seq : seq[k] = x })

\* The entries of a list with the given owner and name.
entriesOf(listed, serverName, name) ==
  { i \in DOMAIN listed : listed[i].serverName = serverName /\ listed[i].name = name }

\* The number of tools in the catalogs of the Ready connections.
readyTools ==
  LET upTo[c \in 0..Len(conns)] ==
        IF c = 0 THEN 0
        ELSE upTo[c - 1] + (IF Ready(c) THEN Len(conns[c].tools) ELSE 0)
  IN upTo[Len(conns)]

\* C14: getAllMCPTools() holds one entry for every tool in the catalog of every
\* Ready connection, named serverName_rawName and owned by that server, and
\* nothing else: nothing of a connection that is handshaking, failed, exited,
\* replaced or shut down.
C14_ListIsReadyCatalogs ==
  LET listed == getAllMCPTools(World)
  IN /\ Len(listed) = readyTools
     /\ \A i \in DOMAIN listed :
          \E c \in Conns :
            /\ Ready(c)
            /\ listed[i].serverName = conns[c].name
            /\ \E k \in DOMAIN conns[c].tools :
                 listed[i].name = conns[c].name \o "_" \o conns[c].tools[k]
     /\ \A c \in Conns : \A t \in RawNames :
          Ready(c)
            => Cardinality(entriesOf(listed, conns[c].name, conns[c].name \o "_" \o t))
                 = occurrences(conns[c].tools, t)

\* One server is Ready with two tools, both listed; the other reported a
\* catalog and is not Ready any more.
C14_Witness ==
  \E c, d \in Conns :
    /\ Ready(c) /\ Len(conns[c].tools) = 2
    /\ ~Ready(d) /\ conns[d].tools # <<>>
    /\ Len(getAllMCPTools(World)) = 2

\* C15 (the claim as stated): no two entries of getAllMCPTools() have the same
\* namespaced name.
C15_ListedNamesDistinct ==
  LET listed == getAllMCPTools(World)
  IN \A i, j \in DOMAIN listed : listed[i].name = listed[j].name => i = j

hasSeparator(str) == \E k \in 1..Len(str) : SubSeq(str, k, k) = "_"

\* The same when no configured server name holds the separator and no server
\* reports a raw name twice.
ListedNamesDistinctWhenUnambiguous ==
  ((\A k \in DOMAIN config : ~hasSeparator(config[k]))
     /\ \A c \in Conns : \A t \in RawNames : occurrences(conns[c].tools, t) <= 1)
    => C15_ListedNamesDistinct

\* C16: when two Ready servers with different names each report the raw name
\* t, getAllMCPTools() holds for t exactly one entry owned by the one server,
\* named with its prefix, and exactly one owned by the other, named with the
\* other prefix, and the two names differ.
C16_SameRawNameTwoServers ==
  LET listed == getAllMCPTools(World)
  IN \A c, d \in Conns : \A t \in RawNames :
       (/\ Ready(c) /\ Ready(d)
        /\ conns[c].name # conns[d].name
        /\ occurrences(conns[c].tools, t) = 1
        /\ occurrences(conns[d].tools, t) = 1)
         => LET ofC == entriesOf(listed, conns[c].name, conns[c].name \o "_" \o t)
                ofD == entriesOf(listed, conns[d].name, conns[d].name \o "_" \o t)
            IN /\ Cardinality(ofC) = 1
               /\ Cardinality(ofD) = 1
               /\ \A i \in ofC : \A j \in ofD : listed[i].name # listed[j].name

\* Servers a and b are Ready and both reported ping alone: the list is a_ping
\* of a, then b_ping of b.
C16_Witness ==
  /\ \E c, d \in Conns :
       /\ Ready(c) /\ conns[c].name = "a" /\ conns[c].tools = <<"ping">>
       /\ Ready(d) /\ conns[d].name = "b" /\ conns[d].tools = <<"ping">>
  /\ getAllMCPTools(World)
       = << [name |-> "a_ping", serverName |-> "a"],
            [name |-> "b_ping", serverName |-> "b"] >>

\* Server names a caller may pass, configured or not.
CalledServers == {"a", "b", "a_b", "c"}

\* Names the agent may ask executeTool for: namespaced names, listed or not,
\* and names without a prefix.
CalledNames ==
  { n \o "_" \o t : n \in CalledServers, t \in ToolNames } \cup {"ping", "a", "b_", ""}

\* C17: a call whose server name is not in the registry throws "not connected",
\* and a name for which parseToolName returns null is not routed; in both
\* cases nothing is written to a process and no request-id counter and no
\* pending table changes: the state is the one before the call.
C17_UnroutedCallTouchesNothing ==
  /\ \A n \in CalledServers : \A t \in ToolNames : \A a \in Arguments :
       ~mapHas(servers, n)
         => executeMCPTool(World, n, t, a) = [world |-> World, error |-> "not connected"]
  /\ \A p \in CalledNames : \A a \in Arguments :
       parseToolName(World, p).null
         => executeTool(World, p, a) = [world |-> World, error |-> "unknown tool"]

\* Server a is out of the registry after its process exited with a call
\* pending on it, b is connected with a call pending: a call to a throws, a_ping
\* does not parse, and b_ping does.
C17_Witness ==
  \E c, d \in Conns :
    /\ conns[c].name = "a" /\ ~mapHas(servers, "a")
    /\ DOMAIN conns[c].pendingRequests # {}
    /\ conns[d].name = "b" /\ registered(World, d)
    /\ DOMAIN conns[d].pendingRequests # {}
    /\ executeMCPTool(World, "a", "ping", "{}").error = "not connected"
    /\ parseToolName(World, "a_ping").null
    /\ ~parseToolName(World, "b_ping").null

\* The messages written to connection c that carry the given id.
writtenWithId(c, id) == SelectSeq(conns[c].stdin, LAMBDA m : m.id = id)

\* C18: executeMCPTool for a server in the registry writes one tools/call
\* request with the next id of that connection, the raw tool name and the
\* arguments to that server's process and makes the caller the waiter of that
\* id; it leaves the registry and every other connection as they are; and what
\* a caller gets from a server is the response to the id of the one request
\* written for it.
C18_CallReachesOneServer ==
  /\ \A n \in CalledServers : \A t \in ToolNames : \A a \in Arguments :
       mapHas(servers, n)
         => LET c == servers[mapGet(servers, n)].conn
                id == conns[c].requestId + 1
                r == executeMCPTool(World, n, t, a)
            IN /\ r.error = "none"
               /\ r.world.conns[c].stdin
                    = Append(conns[c].stdin,
                             [type |-> "request", id |-> id, method |-> "tools/call",
                              params |-> [name |-> t, arguments |-> a]])
               /\ r.world.conns[c].waiters
                    = Append(conns[c].waiters,
                             [method |-> "tools/call", id |-> id, outcomes |-> <<>>])
               /\ isPending(r.world, c, Len(conns[c].waiters) + 1)
               /\ \A d \in Conns : d # c => r.world.conns[d] = conns[d]
               /\ r.world.servers = servers
  /\ \A c \in Conns : \A wi \in WaitersOf(c) :
       conns[c].waiters[wi].method = "tools/call"
         => /\ Len(writtenWithId(c, conns[c].waiters[wi].id)) = 1
            /\ writtenWithId(c, conns[c].waiters[wi].id)[1].method = "tools/call"
            /\ \A k \in DOMAIN conns[c].waiters[wi].outcomes :
                 conns[c].waiters[wi].outcomes[k].kind \in {"result", "error"}
                   => conns[c].waiters[wi].outcomes[k].by = conns[c].waiters[wi].id

\* A call to a got its result, the request written to a's process carries the
\* tool name and the arguments, and b's process was written the handshake only.
C18_Witness ==
  \E c, d \in Conns :
    /\ conns[c].name = "a" /\ conns[d].name = "b"
    /\ Len(conns[c].stdin) = 4
    /\ conns[c].stdin[4] = [type |-> "request", id |-> 3, method |-> "tools/call",
                            params |-> [name |-> "ping", arguments |-> "{}"]]
    /\ conns[c].waiters[3].outcomes = <<[kind |-> "result", by |-> 3]>>
    /\ Len(conns[d].stdin) = 3
    /\ registered(World, d)

\* C19: shutdownMCP sends a kill to the process of every connection in the
\* registry, changes nothing else of any connection, and leaves the registry
\* empty (isMCPEnabled() false, getAllMCPTools() empty); a second call, and a
\* call on an empty registry, leave the state as it is.
C19_ShutdownClearsAndIsIdempotent ==
  LET after == shutdownMCP(World)
  IN /\ \A c \in Conns :
          after.conns[c]
            = [conns[c] EXCEPT !.killed = conns[c].killed \/ registered(World, c)]
     /\ after.servers = <<>>
     /\ ~isMCPEnabledIn(after)
     /\ getAllMCPTools(after) = <<>>
     /\ after.timers = timers /\ after.inits = inits
     /\ shutdownMCP(after) = after
     /\ servers = <<>> => after = World

\* shutdownMCP ran with both servers connected and a call pending: both
\* processes were sent a kill and the registry is empty.
C19_Witness ==
  /\ servers = <<>>
  /\ Len(conns) = 2
  /\ \A c \in Conns : conns[c].killed /\ conns[c].phase = "ready"
  /\ \E c \in Conns : DOMAIN conns[c].pendingRequests # {}
  /\ ~isMCPEnabled

\* The bytes delivered so far.
delivered == SubSeq(stream.written, 1, Len(stream.written) - Len(stream.rest))

\* What one 'data' event with all of the given bytes leaves.
atOnce(bytes) ==
  IF bytes = "" THEN [NoStream EXCEPT !.written = bytes]
  ELSE onData([NoStream EXCEPT !.written = bytes, !.rest = bytes], Len(bytes))

\* The bytes after the last newline.
tailOf(bytes) ==
  LET at == { k \in 1..Len(bytes) : SubSeq(bytes, k, k) = "\n" }
  IN IF at = {} THEN bytes
     ELSE SubSeq(bytes, (CHOOSE i \in at : \A j \in at : j <= i) + 1, Len(bytes))

\* C20 (the claim as stated): however the bytes delivered so far were cut into
\* chunks, the lines parsed are those that one chunk with all of them gives,
\* in the same order, and the buffer holds the text after the last newline.
C20_ChunkingDoesNotMatter ==
  /\ stream.parsed = atOnce(delivered).parsed
  /\ stream.buffer = atOnce(delivered).buffer
  /\ stream.buffer = toString(tailOf(delivered))

\* The same for a text of one-byte characters.
ChunkingDoesNotMatterAscii ==
  (\A k \in 1..Len(stream.written) : SubSeq(stream.written, k, k) # "L")
    => C20_ChunkingDoesNotMatter

\* The same for strings: handleServerOutput called with the decoded text cut
\* in two at any place leaves what the call with the whole text leaves.
StringChunkingDoesNotMatter ==
  LET text == toString(stream.written)
  IN \A k \in 0..Len(text) :
       bufferLines(bufferLines(NoStream, SubSeq(text, 1, k)), SubSeq(text, k + 1, Len(text)))
         = bufferLines(NoStream, text)

\* The complete lines of the bytes delivered so far that are neither blank nor
\* rejected by JSON.parse, in order.
validLines(bytes) ==
  LET lines == split(toString(bytes))
  IN SelectSeq(SubSeq(lines, 1, Len(lines) - 1),
               LAMBDA l : ~isBlank(l) /\ parseLine(l).kind # "garbage")

\* C21: blank lines and lines that are not JSON settle nothing and stop
\* nothing: the connection is as if only the other lines had been written (so
\* that every response before and after such a line reached its waiter), a
\* call is settled exactly when a message with its id was among them, and the
\* connection stays connected.
C21_MalformedLinesAreSkipped ==
  /\ World = dispatchLines(StreamWorld, 1, validLines(delivered))
  /\ \A wi \in WaitersOf(1) :
       conns[1].waiters[wi].method = "tools/call"
         => (conns[1].waiters[wi].outcomes # <<>>
               <=> \E k \in DOMAIN validLines(delivered) :
                     parseLine(validLines(delivered)[k]).id = conns[1].waiters[wi].id)
  /\ conns[1].phase = "ready" /\ conns[1].proc = "running" /\ registered(World, 1)

\* A response, a line that is not JSON and another response were delivered:
\* all three lines were handed to JSON.parse and both calls are settled.
C21_Witness ==
  /\ stream.rest = ""
  /\ stream.parsed = <<"r3", "x", "f4">>
  /\ conns[1].waiters[3].outcomes = <<[kind |-> "result", by |-> 3]>>
  /\ conns[1].waiters[4].outcomes = <<[kind |-> "error", by |-> 4]>>

\* The messages of the given type written to connection c.
writtenOfType(c, type) == SelectSeq(conns[c].stdin, LAMBDA m : m.type = type)

\* C22: sendNotification appends one message without an id (id 0 stands for
\* none) to the connection's stdin and changes nothing else, so that no id is
\* used, nothing becomes pending, no timer is armed and no waiter is created;
\* and in every state the waiters, the ids used and the timers ever armed are
\* as many as the requests written, whatever number of notifications was
\* written.
C22_NotificationIsFireAndForget ==
  /\ \A c \in Conns :
       sendNotification(World, c, "notifications/initialized")
         = [World EXCEPT !.conns[c].stdin =
              Append(@, [type |-> "notification", id |-> 0,
                         method |-> "notifications/initialized", params |-> NoParams])]
  /\ \A c \in Conns :
       /\ Len(writtenOfType(c, "request")) = conns[c].requestId
       /\ Len(conns[c].waiters) = conns[c].requestId
       /\ \A k \in DOMAIN conns[c].stdin :
            conns[c].stdin[k].type = "notification" <=> conns[c].stdin[k].id = 0
       /\ \A id \in DOMAIN conns[c].pendingRequests :
            Len(SelectSeq(writtenOfType(c, "request"), LAMBDA m : m.id = id)) = 1

\* The notification was written after the answer to initialize: two ids are
\* used, for initialize and tools/list, and only tools/list is pending.
C22_Witness ==
  \E c \in Conns :
    /\ conns[c].phase = "awaitList"
    /\ Len(writtenOfType(c, "notification")) = 1
    /\ conns[c].requestId = 2
    /\ DOMAIN conns[c].pendingRequests = {2}

\* C23: a connection's request-id counter is 0 until its first request, the
\* k-th request written to it carries the id k, whatever became of the
\* requests before it, and the counter is the id of the last one; so the ids
\* on one connection increase strictly and none is used twice.
C23_RequestIdsIncrease ==
  /\ \A c \in Conns :
       LET requests == writtenOfType(c, "request")
       IN /\ conns[c].requestId = Len(requests)
          /\ \A k \in DOMAIN requests : requests[k].id = k
          /\ \A i, j \in DOMAIN requests : i < j => requests[i].id < requests[j].id
          /\ \A wi \in WaitersOf(c) : conns[c].waiters[wi].id = wi
  /\ \A c \in Conns : \A method \in {"initialize", "tools/list", "tools/call"} :
       LET after == sendRequest(World, c, method, NoParams).conns[c]
       IN /\ after.requestId = conns[c].requestId + 1
          /\ after.stdin[Len(after.stdin)].id = after.requestId
          /\ \A k \in DOMAIN conns[c].stdin : conns[c].stdin[k].id < after.requestId

\* A call written first got the id 1 and timed out; the initialize request
\* written after it has the id 2 and the next one the id 3.
C23_Witness ==
  \E c \in Conns :
    /\ Len(conns[c].stdin) >= 3
    /\ conns[c].stdin[1].method = "tools/call" /\ conns[c].stdin[1].id = 1
    /\ conns[c].waiters[1].outcomes = <<[kind |-> "timeout", by |-> 0]>>
    /\ conns[c].requestId = 3
    /\ conns[c].stdin[Len(conns[c].stdin)].id = 3

\* C24 (the claim as stated): when a call was rejected with the error of a
\* response, what the caller catches differs in its type from what it catches
\* on a timeout and from what executeMCPTool throws for a server that is not
\* connected, whatever message the server sent.
C24_RemoteErrorHasItsOwnType ==
  \A c \in Conns : \A wi \in WaitersOf(c) :
    (/\ conns[c].waiters[wi].method = "tools/call"
     /\ conns[c].waiters[wi].outcomes # <<>>
     /\ conns[c].waiters[wi].outcomes[1].kind = "error")
      => \A message \in ErrorMessages :
           /\ remoteError(message).type # timeoutError("tools/call").type
           /\ remoteError(message).type # notConnectedError(conns[c].name).type

\* The three errors can be told apart by their messages as long as the server
\* does not send the text of one of the other two.
RemoteErrorDiffersInMessage ==
  \A n \in Names :
    /\ remoteError("invalid arguments") # timeoutError("tools/call")
    /\ remoteError("invalid arguments") # notConnectedError(n)
    /\ timeoutError("tools/call") # notConnectedError(n)

\* C25: what a server writes to stderr never changes the protocol state: the
\* handler leaves the registry, the pending tables, the buffers, the counters
\* and the callers as they are, also for a text that is a well-formed response
\* for a pending id, and a caller only ever has an outcome for which a line of
\* stdout with its id was parsed.
C25_StderrLeavesProtocolStateAlone ==
  /\ \A c \in Conns : \A text \in StdoutLines : onStderr(World, c, text) = World
  /\ \A c \in Conns : \A wi \in WaitersOf(c) :
       (conns[c].waiters[wi].method = "tools/call" /\ conns[c].waiters[wi].outcomes # <<>>)
         => \E k \in DOMAIN stream.parsed :
              parseLine(stream.parsed[k]).id = conns[c].waiters[wi].id

\* A chunk of stderr arrived while the request with id 3 was pending, "r3" is a
\* response for it, and the request is pending still.
C25_Witness ==
  /\ stream.logged = 1
  /\ stream.parsed = <<>>
  /\ parseLine("r3").kind = "result"
  /\ parseLine("r3").id \in DOMAIN conns[1].pendingRequests
  /\ \A wi \in WaitersOf(1) :
       conns[1].waiters[wi].method = "tools/call" => conns[1].waiters[wi].outcomes = <<>>

\* C26 (the claim as stated): only a response settles a pending request: a line
\* that is a request of the server (an id and a method) or a notification (no
\* id) leaves every pending table and every caller as they are, also when its
\* id is the id of a pending request.
C26_OnlyResponsesSettle ==
  \A c \in Conns : \A line \in Lines :
    line.kind \in {"request", "notification"}
      => handleServerOutput(World, c, line) = World

\* The part that holds: a notification, which has no id, is discarded.
NotificationsAreDiscarded ==
  \A c \in Conns : \A line \in Lines :
    line.kind = "notification" => handleServerOutput(World, c, line) = World

\* What a request of the server does instead: the caller whose request has the
\* same id is resolved with undefined.
RequestWithPendingIdResolves ==
  \A c \in Conns : \A line \in Lines : \A wi \in WaitersOf(c) :
    (line.kind = "request" /\ conns[c].waiters[wi].id = line.id /\ isPending(World, c, wi))
      => LET after == handleServerOutput(World, c, line).conns[c]
         IN /\ line.id \notin DOMAIN after.pendingRequests
            /\ after.waiters[wi].outcomes = <<[kind |-> "result", by |-> line.id]>>

\* C27: there is no automatic reconnect.  A connection that is out of the
\* registry is never put back; a name that is out of the registry comes back
\* in one way only, the loop of a running initializeMCP spawning the next entry
\* of the configuration under that name; and once initializeMCP has returned a
\* name that is out stays out.
C27_NoAutomaticReconnect ==
  [][/\ \A c \in Conns : ~registered(World, c) =>
          ~\E i \in DOMAIN servers' : servers'[i].conn = c
     /\ \A n \in Names :
          (~mapHas(servers, n) /\ mapHas(servers', n))
            => \E r \in DOMAIN inits' :
                 /\ r \in DOMAIN inits => ~inits[r].done
                 /\ inits'[r].k = (IF r \in DOMAIN inits THEN inits[r].k ELSE 0) + 1
                 /\ config[inits'[r].k] = n
                 /\ Len(conns') = Len(conns) + 1
                 /\ conns'[Len(conns')] = newServer(n, r)
                 /\ servers'[mapGet(servers', n)].conn = Len(conns')
     /\ (inits # <<>> /\ \A r \in DOMAIN inits : inits[r].done)
          => \A n \in Names : ~mapHas(servers, n) => ~mapHas(servers', n)]_vars

\* initializeMCP has returned; the process of one server exited and the
\* handshake of another failed, neither name is in the registry, and the
\* program went on: a timer of the exited connection fired afterwards.
C27_Witness ==
  /\ inits # <<>> /\ \A r \in DOMAIN inits : inits[r].done
  /\ \E c, d \in Conns :
       /\ conns[c].proc = "exited" /\ conns[c].phase = "ready"
       /\ conns[d].phase = "failed"
       /\ conns[c].name # conns[d].name
       /\ ~mapHas(servers, conns[c].name)
       /\ ~mapHas(servers, conns[d].name)
       /\ timers = <<>>

\* No request is waiting: every pending table is empty and every caller of
\* sendRequest has its result or its error.
AllSettled ==
  \A c \in Conns :
    /\ conns[c].pendingRequests = <<>>
    /\ \A wi \in WaitersOf(c) : conns[c].waiters[wi].outcomes # <<>>

\* C28: when timers fire, every request sent with sendRequest settles, whether
\* the server answers, stays silent, exits or is killed by shutdownMCP: from a
\* state with a pending request or a waiting caller a state is reached where
\* every pending table is empty and every caller has its outcome, and since an
\* outcome is never taken back and an id never used twice that is the end of
\* each of these requests.
C28_EveryRequestSettles == (~AllSettled) ~> AllSettled

\* When no more requests are sent the pending tables stay empty.
PendingTablesEndEmpty == <>[]AllSettled

\* A call was sent to a server that was then shut down and whose process was
\* gone; the call ended by its timer.
C28_Witness ==
  \E c \in Conns : \E wi \in WaitersOf(c) :
    /\ conns[c].waiters[wi].method = "tools/call"
    /\ conns[c].killed
    /\ conns[c].proc = "exited"
    /\ conns[c].waiters[wi].outcomes = <<[kind |-> "timeout", by |-> 0]>>
    /\ AllSettled

\* The caller whose request has this id.
waiterOf(w, c, id) == CHOOSE wi \in DOMAIN w.conns[c].waiters : w.conns[c].waiters[wi].id = id

\* C29: a request is in the pending table from the step that writes it to
\* stdin: every request on stdin whose caller has no outcome yet is pending
\* under its id, so a response with the id of any request written and not yet
\* settled finds the entry and settles that caller; and sendRequest leaves the
\* new id pending, with its caller, in the state in which the request is
\* written.
C29_PendingBeforeWritten ==
  /\ \A c \in Conns : \A k \in DOMAIN conns[c].stdin :
       LET m == conns[c].stdin[k]
       IN m.type = "request" =>
            /\ \E wi \in WaitersOf(c) : conns[c].waiters[wi].id = m.id
            /\ LET wi == waiterOf(World, c, m.id)
               IN conns[c].waiters[wi].outcomes = <<>> =>
                    /\ isPending(World, c, wi)
                    /\ handleServerOutput(World, c, okResult(m.id)).conns[c].waiters[wi].outcomes
                         = <<[kind |-> "result", by |-> m.id]>>
  /\ \A c \in Conns :
       LET after == sendRequest(World, c, "tools/call", [name |-> "ping", arguments |-> "{}"])
           id == conns[c].requestId + 1
       IN /\ after.conns[c].stdin[Len(after.conns[c].stdin)].id = id
          /\ id \in DOMAIN after.conns[c].pendingRequests
          /\ isPending(after, c, Len(after.conns[c].waiters))

\* The response to a call arrived as the next event after the call was written,
\* and settled it.
C29_Witness ==
  \E c \in Conns : \E wi \in WaitersOf(c) :
    /\ conns[c].waiters[wi].method = "tools/call"
    /\ conns[c].stdin[Len(conns[c].stdin)].id = conns[c].waiters[wi].id
    /\ conns[c].waiters[wi].outcomes = <<[kind |-> "result", by |-> conns[c].waiters[wi].id]>>
    /\ Len(timers) = 3

\* C30 (the claim as stated): every entry of getAllMCPTools() parses back:
\* parseToolName of its name is not null, gives the server that owns the entry,
\* and gives a tool name that this server reported and that, behind the
\* server's prefix, is the entry's name.
C30_ListedNamesParseBack ==
  LET listed == getAllMCPTools(World)
  IN \A j \in DOMAIN listed :
       LET e == listed[j]
           parsed == parseToolName(World, e.name)
       IN /\ ~parsed.null
          /\ parsed.serverName = e.serverName
          /\ e.name = e.serverName \o "_" \o parsed.toolName
          /\ \E k \in DOMAIN conns[servers[mapGet(servers, e.serverName)].conn].tools :
               conns[servers[mapGet(servers, e.serverName)].conn].tools[k] = parsed.toolName

\* The same when no configured server name holds the separator.
ParseBackWithoutSeparatorInNames ==
  (\A k \in DOMAIN config : ~hasSeparator(config[k])) => C30_ListedNamesParseBack

\* Every listed name parses to some registered server, whatever the names.
ListedNamesParse ==
  LET listed == getAllMCPTools(World)
  IN \A j \in DOMAIN listed :
       /\ ~parseToolName(World, listed[j].name).null
       /\ mapHas(servers, parseToolName(World, listed[j].name).serverName)

\* Names handed to parseToolName: names getAllMCPTools lists, names of tools of
\* the agent itself, and names cut short.
PrefixedNames ==
  {"a_ping", "a_b_ping", "b_ping", "a_b_b_ping", "a_", "a_b", "a", "b", "ping", "", "_ping", "ab_ping"}

\* C31: parseToolName(n) is null exactly when no name s of the registry has
\* s followed by "_" as a prefix of n; otherwise it is the first such s in
\* the insertion order of the registry, with what follows the prefix in n; the
\* server name it returns is always in the registry.
C31_ParseToolNameFirstMatch ==
  \A n \in PrefixedNames :
    LET parsed == parseToolName(World, n)
        matches(i) == startsWith(n, servers[i].name \o "_")
    IN /\ parsed.null <=> ~\E i \in DOMAIN servers : matches(i)
       /\ ~parsed.null =>
            /\ mapHas(servers, parsed.serverName)
            /\ \E i \in DOMAIN servers :
                 /\ matches(i)
                 /\ \A j \in 1..(i - 1) : ~matches(j)
                 /\ parsed.serverName = servers[i].name
            /\ n = parsed.serverName \o "_" \o parsed.toolName

\* Two names of the registry match "a_b_ping" and the first one is returned;
\* "ping" matches none.
C31_Witness ==
  /\ Len(servers) = 2
  /\ servers[1].name = "a" /\ servers[2].name = "a_b"
  /\ parseToolName(World, "a_b_ping") = [null |-> FALSE, serverName |-> "a", toolName |-> "b_ping"]
  /\ parseToolName(World, "ping").null

\* C32 (the claim as stated): the exit or error event of a process removes from
\* the registry the connection of that process only: every other connection
\* that is registered, one registered later under the same name included, is
\* registered afterwards.
C32_ExitRemovesOnlyItsOwn ==
  \A c \in Conns : conns[c].proc = "running" =>
    \A d \in Conns \ {c} :
      registered(World, d)
        => /\ registered(onExit(World, c), d)
           /\ registered(onError(World, c), d)

\* The part that holds: connections registered under other names stay.
ExitLeavesOtherNames ==
  \A c \in Conns : conns[c].proc = "running" =>
    \A d \in Conns \ {c} :
      (registered(World, d) /\ conns[d].name # conns[c].name)
        => /\ registered(onExit(World, c), d)
           /\ registered(onError(World, c), d)

\* A process that was spawned, has not exited and was not sent a kill.
alive(w, c) == w.conns[c].proc = "running" /\ ~w.conns[c].killed

\* C33 (the claim as stated): no spawned process is leaked: every process that
\* has not exited and was not sent a kill is the process of a connection in
\* the registry, and after shutdownMCP no such process is left.
C33_NoProcessLeaked ==
  /\ \A c \in Conns : alive(World, c) => registered(World, c)
  /\ \A c \in Conns : ~alive(shutdownMCP(World), c)

\* The same for one call of initializeMCP with a configuration of distinct
\* names.
NoProcessLeakedDistinctNames ==
  ((\A j, k \in DOMAIN config : config[j] = config[k] => j = k) /\ Len(inits) <= 1)
    => C33_NoProcessLeaked

\* shutdownMCP has run since this connection was spawned: its process was sent
\* a kill and not by the catch block of connectServer.
shutDown(c) == conns[c].killed /\ conns[c].phase # "failed"

\* C34 (the claim as stated): initializeMCP is called once; from a state where
\* shutdownMCP has killed a connection, no step spawns a process, and a registry
\* that is empty stays empty: the initializeMCP that was interrupted brings up
\* none of the remaining servers.
C34_ShutdownStopsInitialize ==
  [][(\E c \in Conns : shutDown(c))
       => /\ Len(conns') = Len(conns)
          /\ servers = <<>> => servers' = <<>>]_vars

\* The part that holds: after a shutdownMCP that ran when initializeMCP had
\* returned, nothing is spawned and the registry stays empty.
ShutdownAfterInitializeStays ==
  [][((\E c \in Conns : shutDown(c)) /\ inits # <<>> /\ \A r \in DOMAIN inits : inits[r].done)
       => /\ Len(conns') = Len(conns)
          /\ servers = <<>> => servers' = <<>>]_vars

\* A request with this id was written to the process of the connection.
sent(c, id) ==
  \E k \in DOMAIN conns[c].stdin :
    conns[c].stdin[k].type = "request" /\ conns[c].stdin[k].id = id

\* The caller of the request with this id has its result or its error.
settled(c, id) ==
  \E wi \in WaitersOf(c) :
    conns[c].waiters[wi].id = id /\ conns[c].waiters[wi].outcomes # <<>>

\* C35: on every connection the pending table holds an id exactly when a
\* request with that id was sent on the connection and its caller is not
\* settled, and every id of the table is between 1 and the request-id counter
\* of the connection.
C35_PendingIffSentAndUnsettled ==
  \A c \in Conns :
    /\ \A id \in 0..(MaxReq + 1) :
         id \in DOMAIN conns[c].pendingRequests <=> (sent(c, id) /\ ~settled(c, id))
    /\ DOMAIN conns[c].pendingRequests \subseteq 1..conns[c].requestId

\* Of three calls on one connection the first was answered, the second timed
\* out and the third is the one id in the table.
C35_Witness ==
  \E c \in Conns :
    /\ conns[c].requestId = 5
    /\ DOMAIN conns[c].pendingRequests = {5}
    /\ conns[c].waiters[3].outcomes = <<[kind |-> "result", by |-> 3]>>
    /\ conns[c].waiters[4].outcomes = <<[kind |-> "timeout", by |-> 0]>>

\* C36: the timer of a request is not cancelled by its response, and when it
\* fires for a request that is settled it does nothing: a response removes no
\* timer (the handshake may start new ones behind them), and the firing of a
\* timer whose id is not pending changes nothing but the list of timers, so
\* the outcome of its caller and every pending entry and caller of every
\* connection are as before.
C36_LateTimerHasNoEffect ==
  /\ \A c \in Conns : \A line \in Lines :
       LET after == handleServerOutput(World, c, line).timers
       IN Len(after) >= Len(timers) /\ SubSeq(after, 1, Len(timers)) = timers
  /\ timers # <<>> =>
       LET t == Head(timers)
       IN t.id \notin DOMAIN conns[t.conn].pendingRequests
            => timerFires(World) = [World EXCEPT !.timers = Tail(timers)]

\* The first call was answered, its timer fired afterwards, and the second
\* call on the same connection is pending still, its timer waiting.
C36_Witness ==
  \E c \in Conns :
    /\ conns[c].requestId >= 4
    /\ conns[c].waiters[3].outcomes = <<[kind |-> "result", by |-> 3]>>
    /\ ~timerArmed(c, 3)
    /\ isPending(World, c, 4)
    /\ timerArmed(c, 4)

\* C37 (the claim as stated): on the stdin of every connection each tools/call
\* request comes after the notifications/initialized notification, which is
\* written when the initialize request has succeeded.
C37_NoCallBeforeHandshake ==
  \A c \in Conns : \A k \in DOMAIN conns[c].stdin :
    conns[c].stdin[k].method = "tools/call"
      => \E j \in 1..(k - 1) :
           /\ conns[c].stdin[j].type = "notification"
           /\ conns[c].stdin[j].method = "notifications/initialized"

\* The notification itself is never written before the initialize request has
\* a result.
InitializedAfterInitialize ==
  \A c \in Conns : \A j \in DOMAIN conns[c].stdin :
    conns[c].stdin[j].method = "notifications/initialized"
      => \E wi \in WaitersOf(c) :
           /\ conns[c].waiters[wi].method = "initialize"
           /\ conns[c].waiters[wi].outcomes # <<>>
           /\ conns[c].waiters[wi].outcomes[1].kind = "result"

\* Names of function calls the model returns: names of listed tools and names
\* no server listed.
DispatchedNames == {"a_ping", "b_ping", "a_b_ping", "ping", "a"}

\* C38: executeTool never throws for a name of the default case.  When the MCP
\* call fails, by "not connected", by a timeout or by the error of a response,
\* it returns "Error: " and the message of that error; when the name parses to
\* no server of the registry it returns "Unknown tool: " and the name, and
\* nothing is written to any process, no id is used and nothing is pending.
C38_DispatcherReturnsErrors ==
  \A name \in DispatchedNames : \A how \in Settlements :
    LET parsed == parseToolName(World, name)
        started == executeTool(World, name, "{}")
        returned == executeToolReturn(World, name, "{}", how)
    IN /\ ~returned.thrown
       /\ parsed.null =>
            /\ returned.value = "Unknown tool: " \o name
            /\ started = [world |-> World, error |-> "unknown tool"]
       /\ (~parsed.null /\ started.error = "not connected") =>
            /\ returned.value = "Error: MCP server not connected: " \o parsed.serverName
            /\ started.world = World
       /\ (~parsed.null /\ started.error = "none" /\ how.kind = "timeout") =>
            returned.value = "Error: Request timeout: tools/call"
       /\ (~parsed.null /\ started.error = "none" /\ how.kind = "error") =>
            returned.value = "Error: " \o how.message

\* Server a is connected and server b is not: "a_ping" is routed to a, where a
\* call has timed out and another was answered with an error, and "b_ping" is
\* an unknown tool.
C38_Witness ==
  /\ ~parseToolName(World, "a_ping").null
  /\ executeTool(World, "a_ping", "{}").error = "none"
  /\ parseToolName(World, "b_ping").null
  /\ \E c \in Conns : \E wi, wj \in WaitersOf(c) :
       /\ conns[c].name = "a"
       /\ conns[c].waiters[wi].method = "tools/call"
       /\ conns[c].waiters[wi].outcomes = <<[kind |-> "timeout", by |-> 0]>>
       /\ conns[c].waiters[wj].method = "tools/call"
       /\ conns[c].waiters[wj].outcomes = <<[kind |-> "error", by |-> conns[c].waiters[wj].id]>>

\* C39 (the claim as stated): mcpToolsToOpenAI maps the list of getAllMCPTools()
\* one to one and in order, the i-th function name being the i-th listed name,
\* and that name parses back with parseToolName to the server that listed the
\* tool.
C39_FunctionNamesParseBack ==
  LET listed == getAllMCPTools(World)
      functions == mcpToolsToOpenAI(listed)
  IN /\ Len(functions) = Len(listed)
     /\ \A i \in DOMAIN listed :
          /\ functions[i].function.name = listed[i].name
          /\ ~parseToolName(World, functions[i].function.name).null
          /\ parseToolName(World, functions[i].function.name).serverName = listed[i].serverName

\* The part that holds: the mapping keeps the length, the order and the names.
MappingKeepsNames ==
  LET listed == getAllMCPTools(World)
      functions == mcpToolsToOpenAI(listed)
  IN /\ Len(functions) = Len(listed)
     /\ \A i \in DOMAIN listed :
          /\ functions[i].type = "function"
          /\ functions[i].function.name = listed[i].name

====
